---- MODULE Spec2Model ----
(***************************************************************************)
(* Model of dvc/tree/azure.py: AzureTree, the Azure Blob Storage adapter.  *)
(*                                                                         *)
(*   Spec      threads of the host calling remove, get_file_hash and isdir *)
(*             on one adapter instance; every access to the blob_service   *)
(*             property goes through wrap_prop(threading.Lock()) over      *)
(*             cached_property.                                            *)
(*   SpecList  one consumer pulling the generators _list_paths and         *)
(*             walk_files.                                                 *)
(*   SpecCfg   AzureTree.__init__: resolution of the container and of the  *)
(*             connection options.                                         *)
(*                                                                         *)
(* Strings the code inspects character by character (blob names, the       *)
(* content_md5 property, hex digests) are tuples of one-character strings. *)
(***************************************************************************)
EXTENDS Integers, Sequences, FiniteSets, TLC

VARIABLES
    \* ---- the object store (the remote side) ----
    containerExists,  \* does the adapter's container exist in the account
    blobs,            \* name -> Missing, or the blob's content_md5 property
    \* ---- the adapter instance ----
    cached,           \* "blob_service" in instance.__dict__
    lock,             \* holders of the threading.Lock given to wrap_prop
    built,            \* number of times the body of blob_service returned
    \* ---- the calling threads (Spec) ----
    pc, cur, result, seen, ctors, probes, creates, probeRes, dels, opsLeft,
    \* ---- the listing generators (SpecList) ----
    gen,
    \* ---- construction (SpecCfg) ----
    cfg

vars == <<containerExists, blobs, cached, lock, built,
          pc, cur, result, seen, ctors, probes, creates, probeRes, dels,
          opsLeft, gen, cfg>>

storeVars  == <<containerExists, blobs>>
handleVars == <<cached, lock, built>>
threadVars == <<pc, cur, result, seen, ctors, probes, creates, probeRes, dels,
                opsLeft>>

(***************************************************************************)
(* Bounds of the model.                                                    *)
(***************************************************************************)
MaxOps == 3          \* operations the threads perform in all
MaxPages == 3        \* pages the store may cut a listing into
MaxInvocations == 2  \* times the consumer invokes a listing

\* the threads of the host's pool that call into the adapter
Threads == {"t1", "t2"}

(***************************************************************************)
(* Text helpers.                                                           *)
(***************************************************************************)
Sep == "/"
Quote == "\""
Pad == "="

\* str.endswith
EndsWith(s, c) == Len(s) > 0 /\ s[Len(s)] = c

\* str.startswith
StartsWith(s, p) == Len(p) <= Len(s) /\ SubSeq(s, 1, Len(p)) = p

\* str.strip(c): drop every leading and every trailing c
RECURSIVE LStrip(_, _)
LStrip(s, c) == IF Len(s) > 0 /\ s[1] = c THEN LStrip(Tail(s), c) ELSE s

RECURSIVE RStrip(_, _)
RStrip(s, c) ==
    IF Len(s) > 0 /\ s[Len(s)] = c THEN RStrip(SubSeq(s, 1, Len(s) - 1), c) ELSE s

Strip(s, c) == RStrip(LStrip(s, c), c)

B64Alphabet ==
    << "A", "B", "C", "D", "E", "F", "G", "H", "I", "J", "K", "L", "M",
       "N", "O", "P", "Q", "R", "S", "T", "U", "V", "W", "X", "Y", "Z",
       "a", "b", "c", "d", "e", "f", "g", "h", "i", "j", "k", "l", "m",
       "n", "o", "p", "q", "r", "s", "t", "u", "v", "w", "x", "y", "z",
       "0", "1", "2", "3", "4", "5", "6", "7", "8", "9", "+", "/" >>

B64Val(c) ==
    IF c = Pad THEN 0 ELSE (CHOOSE i \in 1..64 : B64Alphabet[i] = c) - 1

\* one group of four base64 characters -> one to three bytes
B64Group(g) ==
    LET n == B64Val(g[1]) * 262144 + B64Val(g[2]) * 4096
             + B64Val(g[3]) * 64 + B64Val(g[4])
        b1 == n \div 65536
        b2 == (n \div 256) % 256
        b3 == n % 256
    IN  IF g[3] = Pad THEN <<b1>>
        ELSE IF g[4] = Pad THEN <<b1, b2>>
        ELSE <<b1, b2, b3>>

\* base64.b64decode on a well-formed text
RECURSIVE b64decode(_)
b64decode(s) ==
    IF Len(s) < 4 THEN <<>>
    ELSE B64Group(SubSeq(s, 1, 4)) \o b64decode(SubSeq(s, 5, Len(s)))

HexDigits ==
    << "0", "1", "2", "3", "4", "5", "6", "7",
       "8", "9", "a", "b", "c", "d", "e", "f" >>

\* bytes.hex
RECURSIVE hex(_)
hex(bs) ==
    IF bs = <<>> THEN <<>>
    ELSE <<HexDigits[(bs[1] \div 16) + 1], HexDigits[(bs[1] % 16) + 1]>>
         \o hex(Tail(bs))

(***************************************************************************)
(* Python values.                                                          *)
(***************************************************************************)
\* a str-or-None value: None, or the text s
PyNone == [none |-> TRUE, s |-> <<>>]
PyStr(s) == [none |-> FALSE, s |-> s]
\* truth value of a str-or-None value: None and "" are falsy
Truthy(v) == ~v.none /\ v.s # <<>>

\* what a call gives back: a returned value or a raised exception
Return(v) == [kind |-> "return", val |-> v]
Raise(e) == [kind |-> "raise", val |-> PyStr(<<e>>)]
RetNone == Return(PyNone)
RetBool(b) == Return(PyStr(<<IF b THEN "True" ELSE "False">>))
NoResult == [kind |-> "pending", val |-> PyNone]

(***************************************************************************)
(* The object store behind BlockBlobService.                               *)
(***************************************************************************)
scheme == "azure"                 \* AzureTree.scheme = Schemes.AZURE
Schemes == {"azure", "s3"}
Container == "c1"                 \* self.path_info.bucket
Buckets == {"c1", "c2"}

\* blob names, in the order the store lists them
AllNames ==
    << <<"a", "/">>, <<"a", "/", "x">>, <<"a", "/", "y">>, <<"a", "b">> >>
Names == {AllNames[i] : i \in 1..Len(AllNames)}
\* the names the threads of Spec address
OpPaths == {<<"a", "/", "x">>, <<"a", "/", "y">>}

\* content_md5 as the store holds it: base64 of the digest, sometimes quoted
Md5Texts ==
    { <<"/", "w", "=", "=">>,
      <<Quote, "A", "Q", "I", "D", Quote>>,
      <<Quote, "q", "8", "0", "=", Quote>> }
Md5Values == {PyNone, PyStr(<<>>)} \cup {PyStr(m) : m \in Md5Texts}

Missing == [exists |-> FALSE, md5 |-> PyNone]
Blob(md5) == [exists |-> TRUE, md5 |-> md5]
BlobStates == {Missing} \cup {Blob(m) : m \in Md5Values}

\* a response of the store: status "ok" with the payload, or an error
Ok(v) == [status |-> "ok", md5 |-> v]
MissingResource == [status |-> "AzureMissingResourceHttpError", md5 |-> PyNone]
HttpError == [status |-> "AzureHttpError", md5 |-> PyNone]
CreateError == [status |-> "AzureHttpError(create_container)", md5 |-> PyNone]
NoResponse == [status |-> "none", md5 |-> PyNone]

\* BlockBlobService.get_blob_properties(bucket, path): the blob's properties,
\* a 404 when there is no such blob, or some other failure of the request
get_blob_properties(exists, bl, bucket, path, fault) ==
    IF fault THEN HttpError
    ELSE IF bucket = Container /\ exists /\ bl[path].exists
         THEN Ok(bl[path].md5)
         ELSE MissingResource

\* BlockBlobService.list_blobs(container, delimiter="/", num_results=1)
probe_container(exists, fault) ==
    IF fault THEN HttpError
    ELSE IF exists THEN Ok(PyNone) ELSE MissingResource

(***************************************************************************)
(* AzureTree._get_md5sum_file, isdir, get_file_hash on a store response.   *)
(***************************************************************************)
get_md5sum_file(resp) ==
    IF resp.status # "ok" THEN Raise(resp.status)
    ELSE IF Truthy(resp.md5)
         THEN Return(PyStr(hex(b64decode(Strip(resp.md5.s, Quote)))))
         ELSE RetNone

isdir(resp) ==
    LET r == get_md5sum_file(resp)
    IN  IF r.kind = "raise" THEN r ELSE RetBool(r = RetNone)

get_file_hash(resp) == get_md5sum_file(resp)

(***************************************************************************)
(* Spec: threads calling the adapter.                                      *)
(*                                                                         *)
(* pc[t]:  "idle"   between calls                                          *)
(*         "lookup" evaluating self.blob_service                           *)
(*         "wait"   in WrapperProp.__get__, at `with ctx`                  *)
(*         "probe"  holding the lock, in the body, client constructed      *)
(*         "create" holding the lock, in the except branch                 *)
(*         "store"  holding the lock, the body has returned                *)
(*         "call"   has the handle, about to issue the operation's request *)
(***************************************************************************)
Ops == {"remove", "get_file_hash", "isdir"}
Refs == [scheme : Schemes, bucket : Buckets, path : OpPaths]
NoCall == [op |-> "none", ref |-> [scheme |-> scheme, bucket |-> Container,
                                   path |-> <<"a", "/", "x">>]]

\* faulty variant: remove without its scheme guard
SchemeMismatch_NoGuard(ref) == FALSE

\* remove's guard: the path reference must carry the adapter's scheme
SchemeMismatch(ref) == ref.scheme # scheme

\* Attribute lookup of blob_service on the instance. WrapperProp defines no
\* __set__, so an entry in instance.__dict__ shadows it: the descriptor (and
\* its lock) is reached only while nothing is cached.
FoundInInstanceDict(isCached) == isCached

\* cached_property.__get__, entered with the lock held: it calls the wrapped
\* function and stores what it returns; it does not look at instance.__dict__.
RunsBody(isCached) == TRUE

\* faulty variant: a bare `except:` around the probe
HandledByCreate_AnyError(resp) == resp.status # "ok"

\* the except clause of blob_service: which probe outcomes lead to
\* create_container
HandledByCreate(resp) == resp.status = "AzureMissingResourceHttpError"

\* a thread enters an operation
Invoke(t, o, ref) ==
    /\ pc[t] = "idle"
    /\ opsLeft > 0
    /\ o = "remove" \/ (ref.scheme = scheme /\ ref.bucket = Container)
    /\ opsLeft' = opsLeft - 1
    /\ cur' = [cur EXCEPT ![t] = [op |-> o, ref |-> ref]]
    /\ seen' = [seen EXCEPT ![t] = NoResponse]
    /\ ctors' = [ctors EXCEPT ![t] = 0]
    /\ probes' = [probes EXCEPT ![t] = 0]
    /\ creates' = [creates EXCEPT ![t] = 0]
    /\ probeRes' = [probeRes EXCEPT ![t] = NoResponse]
    /\ dels' = [dels EXCEPT ![t] = <<>>]
    /\ IF o = "remove" /\ SchemeMismatch(ref)
       THEN /\ result' = [result EXCEPT ![t] = Raise("NotImplementedError")]
            /\ pc' = pc
       ELSE /\ result' = [result EXCEPT ![t] = NoResult]
            /\ pc' = [pc EXCEPT ![t] = "lookup"]
    /\ UNCHANGED <<storeVars, handleVars, gen, cfg>>

\* self.blob_service: found in the instance, or handed to the descriptor
Lookup(t) ==
    /\ pc[t] = "lookup"
    /\ pc' = [pc EXCEPT ![t] = IF FoundInInstanceDict(cached) THEN "call" ELSE "wait"]
    /\ UNCHANGED <<storeVars, handleVars, cur, result, seen, ctors, probes,
                   creates, probeRes, dels, opsLeft, gen, cfg>>

\* `with ctx:` is entered, then prop.__get__ runs: BlockBlobService(...)
Acquire(t) ==
    /\ pc[t] = "wait"
    /\ lock = {}
    /\ IF RunsBody(cached)
       THEN /\ ctors' = [ctors EXCEPT ![t] = @ + 1]
            /\ pc' = [pc EXCEPT ![t] = "probe"]
            /\ lock' = {t}
       ELSE /\ pc' = [pc EXCEPT ![t] = "call"]
            /\ UNCHANGED <<ctors, lock>>
    /\ UNCHANGED <<storeVars, cached, built, cur, result, seen, probes, creates,
                   probeRes, dels, opsLeft, gen, cfg>>

\* the body fails: the exception leaves `with ctx`, nothing is stored
FailBuild(t, resp) ==
    /\ lock' = lock \ {t}
    /\ result' = [result EXCEPT ![t] = Raise(resp.status)]
    /\ pc' = [pc EXCEPT ![t] = "idle"]

\* blob_service.list_blobs(bucket, delimiter="/", num_results=1)
Probe(t, fault) ==
    /\ pc[t] = "probe"
    /\ LET resp == probe_container(containerExists, fault)
       IN  /\ probes' = [probes EXCEPT ![t] = @ + 1]
           /\ probeRes' = [probeRes EXCEPT ![t] = resp]
           /\ IF resp.status = "ok"
              THEN /\ pc' = [pc EXCEPT ![t] = "store"]
                   /\ UNCHANGED <<lock, result>>
              ELSE IF HandledByCreate(resp)
              THEN /\ pc' = [pc EXCEPT ![t] = "create"]
                   /\ UNCHANGED <<lock, result>>
              ELSE FailBuild(t, resp)
    /\ UNCHANGED <<storeVars, cached, built, cur, seen, ctors, creates, dels,
                   opsLeft, gen, cfg>>

\* blob_service.create_container(bucket)
Create(t, fault) ==
    /\ pc[t] = "create"
    /\ creates' = [creates EXCEPT ![t] = @ + 1]
    /\ IF fault
       THEN /\ FailBuild(t, CreateError)
            /\ UNCHANGED containerExists
       ELSE /\ containerExists' = TRUE
            /\ pc' = [pc EXCEPT ![t] = "store"]
            /\ UNCHANGED <<lock, result>>
    /\ UNCHANGED <<blobs, cached, built, cur, seen, ctors, probes, probeRes,
                   dels, opsLeft, gen, cfg>>

\* the body returned: instance.__dict__["blob_service"] = res, `with` exits
Store(t) ==
    /\ pc[t] = "store"
    /\ cached' = TRUE
    /\ built' = built + 1
    /\ lock' = lock \ {t}
    /\ pc' = [pc EXCEPT ![t] = "call"]
    /\ UNCHANGED <<storeVars, cur, result, seen, ctors, probes, creates,
                   probeRes, dels, opsLeft, gen, cfg>>

\* the operation's own request, issued on the handle
Call(t, fault) ==
    /\ pc[t] = "call"
    /\ LET ref == cur[t].ref
           resp == get_blob_properties(containerExists, blobs, ref.bucket,
                                       ref.path, fault)
       IN  /\ seen' = [seen EXCEPT ![t] = resp]
           /\ CASE cur[t].op = "remove" ->
                     /\ dels' = [dels EXCEPT ![t] =
                                   Append(@, [bucket |-> ref.bucket, path |-> ref.path])]
                     /\ result' = [result EXCEPT ![t] =
                                     IF resp.status = "ok" THEN RetNone
                                     ELSE Raise(resp.status)]
                     /\ blobs' = IF resp.status = "ok"
                                 THEN [blobs EXCEPT ![ref.path] = Missing]
                                 ELSE blobs
                [] cur[t].op = "get_file_hash" ->
                     /\ result' = [result EXCEPT ![t] = get_file_hash(resp)]
                     /\ UNCHANGED <<dels, blobs>>
                [] cur[t].op = "isdir" ->
                     /\ result' = [result EXCEPT ![t] = isdir(resp)]
                     /\ UNCHANGED <<dels, blobs>>
    /\ pc' = [pc EXCEPT ![t] = "idle"]
    /\ UNCHANGED <<containerExists, handleVars, cur, ctors, probes, creates,
                   probeRes, opsLeft, gen, cfg>>

\* no listing has been invoked; __init__ is not part of this specification
NoGen ==
    [pc |-> "none", mode |-> "raw", ref |-> NoCall.ref, prefix |-> <<>>,
     marker |-> PyNone, items |-> <<>>, next_marker |-> PyNone, idx |-> 0,
     requests |-> <<>>, served |-> <<>>, rawYielded |-> <<>>,
     lookups |-> <<>>, yielded |-> <<>>, invocations |-> 0]
NoCfg ==
    [pc |-> "none",
     config |-> [url |-> PyNone, connection_string |-> PyNone,
                 sas_token |-> PyNone, account_name |-> PyNone,
                 account_key |-> PyNone],
     az |-> [container_name |-> PyNone, connection_string |-> PyNone,
             sas_token |-> PyNone, account |-> PyNone, key |-> PyNone],
     bucket |-> PyNone,
     conn_kwargs |-> [connection_string |-> PyNone, sas_token |-> PyNone,
                      account_name |-> PyNone, account_key |-> PyNone]]

Init ==
    /\ containerExists \in BOOLEAN
    /\ blobs \in [Names -> {Missing, Blob(PyNone),
                             Blob(PyStr(<<Quote, "q", "8", "0", "=", Quote>>))}]
    /\ \A n \in Names : blobs[n].exists => containerExists /\ n \in OpPaths
    /\ cached = FALSE
    /\ lock = {}
    /\ built = 0
    /\ pc = [t \in Threads |-> "idle"]
    /\ cur = [t \in Threads |-> NoCall]
    /\ result = [t \in Threads |-> NoResult]
    /\ seen = [t \in Threads |-> NoResponse]
    /\ ctors = [t \in Threads |-> 0]
    /\ probes = [t \in Threads |-> 0]
    /\ creates = [t \in Threads |-> 0]
    /\ probeRes = [t \in Threads |-> NoResponse]
    /\ dels = [t \in Threads |-> <<>>]
    /\ opsLeft = MaxOps
    /\ gen = NoGen
    /\ cfg = NoCfg

Next ==
    \/ \E t \in Threads, o \in Ops, ref \in Refs : Invoke(t, o, ref)
    \/ \E t \in Threads : Lookup(t)
    \/ \E t \in Threads : Acquire(t)
    \/ \E t \in Threads, fault \in BOOLEAN : Probe(t, fault)
    \/ \E t \in Threads, fault \in BOOLEAN : Create(t, fault)
    \/ \E t \in Threads : Store(t)
    \/ \E t \in Threads, fault \in BOOLEAN : Call(t, fault)

Spec == Init /\ [][Next]_vars

(***************************************************************************)
(* Properties of Spec.                                                     *)
(***************************************************************************)
\* thread t is inside the body of blob_service
InBody(t) == pc[t] \in {"probe", "create", "store"}
\* the access of t's current operation to blob_service gave it the handle
GotHandle(t) ==
    \/ pc[t] \in {"store", "call"}
    \/ pc[t] = "idle" /\ seen[t] # NoResponse
\* t's current operation ran the body of blob_service, and the body has ended
RunFinished(t) == probes[t] >= 1 /\ pc[t] \notin {"probe", "create"}
\* t's current operation is o and it has ended
Completed(t, o) == pc[t] = "idle" /\ cur[t].op = o /\ result[t] # NoResult

\* C1: the construction step (building the client and probing the container)
\* is performed at most once per adapter instance, also when several threads
\* make their first access concurrently: the body returns at most once, and no
\* thread is inside the body while a handle is already cached.
C1_ConstructedAtMostOnce ==
    /\ built <= 1
    /\ \A t \in Threads : InBody(t) /\ pc[t] # "store" => ~cached

\* C2, as stated: a first access issues exactly one probe; create_container is
\* requested iff the probe failed with "not found", and then the handle is
\* still returned; any other probe failure issues no creation and propagates.
C2_ProbeThenCreate_Original ==
    \A t \in Threads : RunFinished(t) =>
        /\ probes[t] = 1
        /\ (creates[t] = 1) <=> HandledByCreate(probeRes[t])
        /\ HandledByCreate(probeRes[t]) => GotHandle(t)
        /\ probeRes[t] = HttpError =>
               creates[t] = 0 /\ ~GotHandle(t) /\ result[t] = Raise(HttpError.status)

\* C2, amended: as above, but a "not found" probe returns the handle only if
\* the creation request succeeds; if create_container fails, its error
\* propagates and no handle is returned.
C2_ProbeThenCreate ==
    \A t \in Threads :
        /\ probes[t] <= 1 /\ creates[t] <= 1
        /\ creates[t] = 1 => HandledByCreate(probeRes[t])
        /\ RunFinished(t) =>
            /\ probes[t] = 1
            /\ (creates[t] = 1) <=> HandledByCreate(probeRes[t])
            /\ probeRes[t].status = "ok" => GotHandle(t)
            /\ HandledByCreate(probeRes[t]) =>
                   \/ GotHandle(t)
                   \/ ~GotHandle(t) /\ result[t] = Raise(CreateError.status)
            /\ probeRes[t] = HttpError =>
                   /\ creates[t] = 0
                   /\ ~GotHandle(t)
                   /\ result[t] = Raise(HttpError.status)

\* a first access found no container, created it and returned the handle
C2_Witness ==
    \E t \in Threads :
        /\ RunFinished(t) /\ probeRes[t] = MissingResource
        /\ creates[t] = 1 /\ GotHandle(t) /\ containerExists

\* the requests remove(ref) of thread t has caused
NoNetworkCall(t) ==
    /\ ctors[t] = 0 /\ probes[t] = 0 /\ creates[t] = 0
    /\ dels[t] = <<>> /\ seen[t] = NoResponse
OneDelete(t) ==
    dels[t] = << [bucket |-> cur[t].ref.bucket, path |-> cur[t].ref.path] >>

\* C5, as stated: remove with a foreign scheme raises NotImplementedError and
\* performs no network call (no delete, no construction, probe or creation);
\* with the adapter's scheme exactly one delete request for (bucket, path) is
\* issued.
C5_Remove_Original ==
    \A t \in Threads : Completed(t, "remove") =>
        IF cur[t].ref.scheme # scheme
        THEN result[t] = Raise("NotImplementedError") /\ NoNetworkCall(t)
        ELSE OneDelete(t)

\* C5, amended: with the adapter's scheme exactly one delete request for
\* (bucket, path) is issued once the client handle is obtained; if obtaining
\* the handle fails, that error propagates and no delete request is issued.
C5_Remove ==
    \A t \in Threads :
        /\ cur[t].op = "remove" /\ cur[t].ref.scheme # scheme =>
               /\ pc[t] = "idle"
               /\ result[t] = Raise("NotImplementedError")
               /\ NoNetworkCall(t)
        /\ Completed(t, "remove") /\ cur[t].ref.scheme = scheme =>
               IF GotHandle(t)
               THEN OneDelete(t)
               ELSE dels[t] = <<>> /\ result[t].kind = "raise"
        /\ cur[t].op = "remove" /\ pc[t] # "idle" => dels[t] = <<>>

\* one thread's remove with a foreign scheme was rejected without any request,
\* another thread's remove with the adapter's scheme has deleted its blob
C5_Witness ==
    /\ \E t \in Threads :
          /\ Completed(t, "remove") /\ cur[t].ref.scheme # scheme
          /\ result[t] = Raise("NotImplementedError") /\ NoNetworkCall(t)
    /\ \E t \in Threads :
          /\ Completed(t, "remove") /\ cur[t].ref.scheme = scheme
          /\ OneDelete(t) /\ result[t] = RetNone

\* C6: get_file_hash returns None, and raises nothing, both when no blob
\* exists at the path and when the blob has no stored content hash; when a
\* hash is stored it returns the hex form of the digest.
C6_HashAbsentNotError ==
    \A t \in Threads : Completed(t, "get_file_hash") /\ GotHandle(t) =>
        /\ seen[t] = MissingResource => result[t] = RetNone
        /\ seen[t].status = "ok" /\ ~Truthy(seen[t].md5) => result[t] = RetNone
        /\ seen[t].status = "ok" /\ Truthy(seen[t].md5) =>
               /\ result[t].kind = "return"
               /\ result[t].val = PyStr(hex(b64decode(Strip(seen[t].md5.s, Quote))))

\* C8: isdir(p) is True exactly when get_file_hash(p) is None, False exactly
\* when it is a hash, and fails exactly when get_file_hash fails; a path at
\* which no blob exists is reported as a directory.
C8_IsDirIffNoHash ==
    \A t \in Threads : Completed(t, "isdir") /\ GotHandle(t) =>
        /\ (result[t] = RetBool(TRUE)) <=> (get_file_hash(seen[t]) = RetNone)
        /\ (result[t] = RetBool(FALSE)) <=>
               (get_file_hash(seen[t]).kind = "return"
                /\ get_file_hash(seen[t]) # RetNone)
        /\ (result[t].kind = "raise") <=> (get_file_hash(seen[t]).kind = "raise")
        /\ seen[t] = MissingResource => result[t] = RetBool(TRUE)

\* C10: when the body of blob_service fails (the probe raises something other
\* than "not found", or create_container raises), no handle is cached and the
\* lock is free, the failing caller gets the error, and so the next access
\* runs the body again.
C10_FailedBuildLeavesNothing ==
    [][\A t \in Threads :
          pc[t] \in {"probe", "create"} /\ pc'[t] = "idle" =>
              /\ ~cached'
              /\ lock' = {}
              /\ result'[t].kind = "raise"]_vars

(***************************************************************************)
(* SpecList: the generators _list_paths and walk_files, pulled by one      *)
(* consumer.                                                               *)
(*                                                                         *)
(* gen.pc: "new"       generator object created, body not started          *)
(*         "fetch"     in _list_paths, about to call list_blobs            *)
(*         "iter"      in `for blob in blobs`                              *)
(*         "check"     in walk_files, about to call _get_md5sum_file       *)
(*         "suspended" at a yield, a value handed to the consumer          *)
(*         "done"      StopIteration;  "error"  an exception propagated    *)
(*         "abandoned" dropped by the consumer before exhaustion           *)
(***************************************************************************)
\* continuation markers are opaque non-empty texts; this one resumes the
\* listing after its first pos names
Marker(pos) == PyStr([i \in 1..(pos + 1) |-> IF i = 1 THEN "@" ELSE "m"])
MarkerPos(m) == IF Truthy(m) THEN Len(m.s) - 1 ELSE 0
\* how the store says "no more pages"
EndMarkers == {PyNone, PyStr(<<>>)}

\* the names list_blobs(bucket, prefix=prefix) covers, in the store's order
Matching(bl, bucket, prefix) ==
    SelectSeq(AllNames,
              LAMBDA n : bucket = Container /\ bl[n].exists /\ StartsWith(n, prefix))

\* walk_files: `path_info / ""` unless the caller asked for a raw prefix scan
WalkPrefix(path, prefixFlag) == IF prefixFlag THEN path ELSE path \o <<Sep>>

\* the first request of a listing carries no marker
InitialMarker == PyNone

\* faulty variant: the loop never takes over the page's marker
NextRequestMarker_Stuck(next_marker) == InitialMarker

\* `next_marker = blobs.next_marker`
NextRequestMarker(next_marker) == next_marker

\* faulty variant: the next page is requested when the last entry is reached
PageExhausted_Early(idx, items) == idx >= Len(items)

\* `for blob in blobs` has run out of entries
PageExhausted(idx, items) == idx > Len(items)

\* `if not blobs.next_marker: break`
LastPage(next_marker) == ~Truthy(next_marker)

\* faulty variant: directory markers are not suppressed
IsDirMarker_Never(fname) == FALSE

\* `if fname.endswith("/"): continue`
IsDirMarker(fname) == EndsWith(fname, Sep)

\* `path_info.replace(path=fname)`
Replace(ref, fname) == [ref EXCEPT !.path = fname]

\* the body of blob_service run by a single thread: what it leaves behind
BuildOutcome(exists, probeFault, createFault) ==
    LET resp == probe_container(exists, probeFault)
    IN  IF resp.status = "ok" THEN [ok |-> TRUE, exists |-> exists]
        ELSE IF HandledByCreate(resp)
             THEN [ok |-> ~createFault, exists |-> exists \/ ~createFault]
             ELSE [ok |-> FALSE, exists |-> exists]

\* the consumer calls _list_paths(bucket, prefix) or walk_files(path_info,
\* prefix=prefixFlag): a generator object is created, nothing runs yet
GenInvoke(mode, path, prefixFlag) ==
    /\ gen.pc \in {"none", "done", "error", "abandoned"}
    /\ gen.invocations < MaxInvocations
    /\ mode = "raw" => ~prefixFlag
    /\ LET ref == [scheme |-> scheme, bucket |-> Container,
                   path |-> IF mode = "walk" THEN WalkPrefix(path, prefixFlag)
                            ELSE path]
       IN gen' = [NoGen EXCEPT !.pc = "new", !.mode = mode, !.ref = ref,
                               !.prefix = ref.path,
                               !.marker = InitialMarker,
                               !.invocations = gen.invocations + 1]
    /\ UNCHANGED <<storeVars, handleVars, threadVars, cfg>>

\* first next(): `blob_service = self.blob_service`
GenStart(probeFault, createFault) ==
    /\ gen.pc = "new"
    /\ IF FoundInInstanceDict(cached)
       THEN /\ gen' = [gen EXCEPT !.pc = "fetch"]
            /\ UNCHANGED <<containerExists, cached, built>>
       ELSE LET out == BuildOutcome(containerExists, probeFault, createFault)
            IN  /\ containerExists' = out.exists
                /\ cached' = out.ok
                /\ built' = IF out.ok THEN built + 1 ELSE built
                /\ gen' = [gen EXCEPT !.pc = IF out.ok THEN "fetch" ELSE "error"]
    /\ UNCHANGED <<blobs, lock, threadVars, cfg>>

\* blob_service.list_blobs(bucket, prefix=prefix, marker=next_marker): the
\* store serves the next n names after the marker, with a marker for the rest
\* or, on its last page, without one
GenFetch(n, endMarker, fault) ==
    /\ gen.pc = "fetch"
    /\ LET all == Matching(blobs, gen.ref.bucket, gen.prefix)
           pos == MarkerPos(gen.marker)
           rest == Len(all) - pos
           last == n = rest /\ endMarker \in EndMarkers
       IN  /\ n \in 0..rest
           /\ endMarker \in EndMarkers \cup {Marker(pos + n)}
           /\ endMarker \in EndMarkers => n = rest
           /\ Len(gen.requests) + 1 >= MaxPages => last
           /\ IF fault
              THEN gen' = [gen EXCEPT !.pc = "error",
                                      !.requests = Append(@, gen.marker)]
              ELSE gen' = [gen EXCEPT
                             !.pc = "iter",
                             !.requests = Append(@, gen.marker),
                             !.items = SubSeq(all, pos + 1, pos + n),
                             !.next_marker = endMarker,
                             !.idx = 1,
                             !.served = Append(@, [items |-> SubSeq(all, pos + 1, pos + n),
                                                   next_marker |-> endMarker])]
    /\ UNCHANGED <<storeVars, handleVars, threadVars, cfg>>

\* one turn of `for blob in blobs`, up to the yield of _list_paths, and in
\* walk_files on to the test for a directory marker
GenAdvance ==
    /\ gen.pc = "iter"
    /\ IF PageExhausted(gen.idx, gen.items)
       THEN IF LastPage(gen.next_marker)
            THEN gen' = [gen EXCEPT !.pc = "done"]
            ELSE gen' = [gen EXCEPT !.pc = "fetch",
                                    !.marker = NextRequestMarker(gen.next_marker)]
       ELSE LET fname == gen.items[gen.idx]
            IN  IF gen.mode = "raw"
                THEN gen' = [gen EXCEPT !.pc = "suspended",
                                        !.rawYielded = Append(@, fname)]
                ELSE IF IsDirMarker(fname)
                THEN gen' = [gen EXCEPT !.idx = @ + 1,
                                        !.rawYielded = Append(@, fname)]
                ELSE gen' = [gen EXCEPT !.pc = "check",
                                        !.rawYielded = Append(@, fname)]
    /\ UNCHANGED <<storeVars, handleVars, threadVars, cfg>>

\* walk_files: `self._get_md5sum_file(bucket, fname) is None` -> continue,
\* else yield path_info.replace(path=fname)
GenCheck(fault) ==
    /\ gen.pc = "check"
    /\ LET fname == gen.items[gen.idx]
           r == get_md5sum_file(get_blob_properties(containerExists, blobs,
                                                    gen.ref.bucket, fname, fault))
       IN  IF r.kind = "raise"
           THEN gen' = [gen EXCEPT !.pc = "error", !.lookups = Append(@, fname)]
           ELSE IF r = RetNone
           THEN gen' = [gen EXCEPT !.pc = "iter", !.idx = @ + 1,
                                   !.lookups = Append(@, fname)]
           ELSE gen' = [gen EXCEPT !.pc = "suspended",
                                   !.lookups = Append(@, fname),
                                   !.yielded = Append(@, Replace(gen.ref, fname))]
    /\ UNCHANGED <<storeVars, handleVars, threadVars, cfg>>

\* the consumer asks for the next value
GenResume ==
    /\ gen.pc = "suspended"
    /\ gen' = [gen EXCEPT !.pc = "iter", !.idx = @ + 1]
    /\ UNCHANGED <<storeVars, handleVars, threadVars, cfg>>

\* the consumer drops the generator
GenAbandon ==
    /\ gen.pc \in {"new", "suspended"}
    /\ gen' = [gen EXCEPT !.pc = "abandoned"]
    /\ UNCHANGED <<storeVars, handleVars, threadVars, cfg>>

QueryPaths == {<<"a">>, <<"a", "/">>}

InitList ==
    /\ containerExists \in BOOLEAN
    /\ blobs \in [Names -> {Missing, Blob(PyNone), Blob(PyStr(<<>>)),
                             Blob(PyStr(<<Quote, "q", "8", "0", "=", Quote>>))}]
    /\ \A n \in Names : blobs[n].exists => containerExists
    /\ blobs[<<"a", "b">>].md5 = PyNone
    /\ blobs[<<"a", "/">>].md5 # PyStr(<<>>)
    /\ cached \in BOOLEAN
    /\ cached => containerExists
    /\ lock = {}
    /\ built = IF cached THEN 1 ELSE 0
    /\ pc = [t \in Threads |-> "idle"]
    /\ cur = [t \in Threads |-> NoCall]
    /\ result = [t \in Threads |-> NoResult]
    /\ seen = [t \in Threads |-> NoResponse]
    /\ ctors = [t \in Threads |-> 0]
    /\ probes = [t \in Threads |-> 0]
    /\ creates = [t \in Threads |-> 0]
    /\ probeRes = [t \in Threads |-> NoResponse]
    /\ dels = [t \in Threads |-> <<>>]
    /\ opsLeft = 0
    /\ gen = NoGen
    /\ cfg = NoCfg

NextList ==
    \/ \E mode \in {"raw", "walk"}, path \in QueryPaths, prefixFlag \in BOOLEAN :
          GenInvoke(mode, path, prefixFlag)
    \/ \E probeFault \in BOOLEAN, createFault \in BOOLEAN :
          GenStart(probeFault, createFault)
    \/ \E n \in 0..Len(AllNames), endMarker \in EndMarkers \cup
              {Marker(i) : i \in 0..Len(AllNames)}, fault \in BOOLEAN :
          GenFetch(n, endMarker, fault)
    \/ GenAdvance
    \/ \E fault \in BOOLEAN : GenCheck(fault)
    \/ GenResume
    \/ GenAbandon

SpecList == InitList /\ [][NextList]_vars

(***************************************************************************)
(* Properties of SpecList.                                                 *)
(***************************************************************************)
RECURSIVE ConcatItems(_)
ConcatItems(pages) ==
    IF pages = <<>> THEN <<>> ELSE Head(pages).items \o ConcatItems(Tail(pages))

IsPrefix(a, b) == Len(a) <= Len(b) /\ a = SubSeq(b, 1, Len(a))
NoDuplicates(q) == \A i, j \in 1..Len(q) : q[i] = q[j] => i = j

\* C3: a listing the store serves in N pages, run to exhaustion, issues
\* exactly N page requests, the first without a marker and each later one
\* with the marker the page before it returned; the names it yields are the
\* N pages concatenated in order, which is every listed name exactly once.
C3_Pagination ==
    gen.pc = "done" =>
        LET N == Len(gen.served)
        IN  /\ N >= 1
            /\ \A k \in 1..(N - 1) : Truthy(gen.served[k].next_marker)
            /\ ~Truthy(gen.served[N].next_marker)
            /\ Len(gen.requests) = N
            /\ gen.requests[1] = PyNone
            /\ \A k \in 2..N : gen.requests[k] = gen.served[k - 1].next_marker
            /\ gen.rawYielded = ConcatItems(gen.served)
            /\ gen.rawYielded = Matching(blobs, gen.ref.bucket, gen.prefix)
            /\ NoDuplicates(gen.rawYielded)

\* a listing of three names served in three pages has been exhausted
C3_Witness ==
    /\ gen.pc = "done"
    /\ Len(gen.requests) = 3
    /\ Len(gen.rawYielded) = 3
    /\ \A k \in 1..3 : Len(gen.served[k].items) = 1

\* the files walk_files has to yield: the listed names that are no directory
\* markers and whose blob carries a content hash
IsFile(bl, fname) == ~EndsWith(fname, Sep) /\ Truthy(bl[fname].md5)
ExpectedFiles(bl, ref) ==
    LET kept == SelectSeq(Matching(bl, ref.bucket, ref.path),
                          LAMBDA n : IsFile(bl, n))
    IN  [i \in 1..Len(kept) |-> [scheme |-> ref.scheme, bucket |-> ref.bucket,
                                 path |-> kept[i]]]

\* C4: walk_files yields, in listing order, exactly the references of the
\* listed names that do not end in the separator and for which the hash
\* lookup returns a hash; each keeps the queried container and carries the
\* listed name as its path.
C4_WalkFiles ==
    gen.mode = "walk" =>
        /\ IsPrefix(gen.yielded, ExpectedFiles(blobs, gen.ref))
        /\ gen.pc = "done" => gen.yielded = ExpectedFiles(blobs, gen.ref)
        /\ gen.pc = "suspended" =>
               gen.yielded[Len(gen.yielded)] =
                   [scheme |-> scheme, bucket |-> Container,
                    path |-> gen.items[gen.idx]]

\* the example of the spec: a/x with a hash, the marker a/ and a/y without
C4_Witness ==
    /\ gen.mode = "walk" /\ gen.pc = "done"
    /\ gen.prefix = <<"a", "/">>
    /\ blobs[<<"a", "/">>] = Blob(PyNone)
    /\ Truthy(blobs[<<"a", "/", "x">>].md5)
    /\ blobs[<<"a", "/", "y">>] = Blob(PyNone)
    /\ gen.yielded = << [scheme |-> scheme, bucket |-> Container,
                         path |-> <<"a", "/", "x">>] >>

\* the names among q that walk_files looks up
NeedLookup(q) == SelectSeq(q, LAMBDA n : ~IsDirMarker(n))

\* C9, state part: the entries handed over so far are the pages before the
\* current one in full and the current one up to the entry in hand; in
\* walk_files each of them that needs a hash lookup has had it, except the
\* entry in hand; a listing that issued a request issued its first one
\* without a marker.
C9_Handed ==
    /\ Len(gen.requests) >= 1 => gen.requests[1] = PyNone
    /\ (gen.pc \in {"iter", "check", "suspended", "abandoned", "done"}
        /\ gen.served # <<>>) =>
          LET before == ConcatItems(SubSeq(gen.served, 1, Len(gen.served) - 1))
              taken == IF gen.pc \in {"check", "suspended", "abandoned"}
                       THEN gen.idx ELSE gen.idx - 1
          IN  /\ Len(gen.requests) = Len(gen.served)
              /\ gen.rawYielded = before \o SubSeq(gen.items, 1, taken)
    /\ (gen.mode = "walk" /\ gen.pc # "check") =>
          gen.lookups = NeedLookup(gen.rawYielded)
    /\ (gen.mode = "walk" /\ gen.pc = "check") =>
          Append(gen.lookups, gen.items[gen.idx]) = NeedLookup(gen.rawYielded)

\* C9, step part: a page request is issued only when every entry of every
\* page served before has been handed over (and looked up, in walk_files);
\* an abandoned generator issues no request; a new invocation starts with no
\* request issued and no marker.
C9_Step ==
    /\ (gen'.requests # gen.requests /\ gen'.requests # <<>>) =>
          /\ gen.pc = "fetch"
          /\ gen.rawYielded = ConcatItems(gen.served)
          /\ gen.mode = "walk" => gen.lookups = NeedLookup(gen.rawYielded)
    /\ gen.pc = "abandoned" =>
          \/ gen' = gen
          \/ gen'.pc = "new" /\ gen'.requests = <<>> /\ gen'.marker = PyNone
    /\ gen'.pc = "new" => gen'.requests = <<>> /\ gen'.marker = PyNone

\* C9: the listing is pull-based: the request for page k+1 is issued only
\* after every entry of page k has been handed to the consumer (in walk_files
\* after the hash lookup of each); a consumer that stops causes no request
\* for a later page; invoking again starts over with a request without marker.
C9_PullBased == []C9_Handed /\ [][C9_Step]_vars

\* the consumer took the first entry of a page that has a successor and
\* dropped the generator: one request was issued
C9_Witness ==
    /\ gen.pc = "abandoned"
    /\ Len(gen.requests) = 1
    /\ Truthy(gen.next_marker)
    /\ gen.idx = 1 /\ Len(gen.items) >= 2
    /\ gen.invocations = 2

(***************************************************************************)
(* SpecCfg: AzureTree.__init__.                                            *)
(*                                                                         *)
(* cfg.config  the per-remote config mapping; None is an absent key        *)
(* cfg.az      what self._az_config.get("storage", key, None) answers      *)
(***************************************************************************)
\* Python's `a or b`
Or(a, b) == IF Truthy(a) THEN a ELSE b

\* the bucket of CloudURLInfo(url): the text after "azure://"
UrlBucket(url) == IF url.none THEN <<>> ELSE url.s

\* f"azure://{container}": None is formatted as the text None
FormatContainer(c) == IF c.none THEN <<"None">> ELSE c.s

\* lines 32-37: the container of self.path_info
ResolveBucket(config, az) ==
    IF UrlBucket(config.url) # <<>>
    THEN PyStr(UrlBucket(config.url))
    ELSE PyStr(FormatContainer(az.container_name))

\* lines 39-48: self._conn_kwargs
ResolveConnKwargs(config, az) ==
    [connection_string |-> Or(config.connection_string, az.connection_string),
     sas_token |-> Or(config.sas_token, az.sas_token),
     account_name |-> az.account,
     account_key |-> az.key]

Construct ==
    /\ cfg.pc = "args"
    /\ cfg' = [cfg EXCEPT !.pc = "built",
                          !.bucket = ResolveBucket(cfg.config, cfg.az),
                          !.conn_kwargs = ResolveConnKwargs(cfg.config, cfg.az)]
    /\ UNCHANGED <<storeVars, handleVars, threadVars, gen>>

ConfigValues == {PyNone, PyStr(<<>>), PyStr(<<"c", "f", "g">>)}
UrlValues == {PyNone, PyStr(<<>>), PyStr(<<"c", "1">>)}
AzValues == {PyNone, PyStr(<<"a", "z">>)}

InitCfg ==
    /\ cfg \in [pc : {"args"},
                config : [url : UrlValues, connection_string : ConfigValues,
                          sas_token : ConfigValues, account_name : ConfigValues,
                          account_key : ConfigValues],
                az : [container_name : AzValues, connection_string : AzValues,
                      sas_token : AzValues, account : AzValues, key : AzValues],
                bucket : {PyNone},
                conn_kwargs : {NoCfg.conn_kwargs}]
    /\ containerExists = FALSE
    /\ blobs = [n \in Names |-> Missing]
    /\ cached = FALSE
    /\ lock = {}
    /\ built = 0
    /\ pc = [t \in Threads |-> "idle"]
    /\ cur = [t \in Threads |-> NoCall]
    /\ result = [t \in Threads |-> NoResult]
    /\ seen = [t \in Threads |-> NoResponse]
    /\ ctors = [t \in Threads |-> 0]
    /\ probes = [t \in Threads |-> 0]
    /\ creates = [t \in Threads |-> 0]
    /\ probeRes = [t \in Threads |-> NoResponse]
    /\ dels = [t \in Threads |-> <<>>]
    /\ opsLeft = 0
    /\ gen = NoGen

NextCfg == Construct

SpecCfg == InitCfg /\ [][NextCfg]_vars

\* the value an option resolves to under the precedence rule: the explicit
\* config value if one is given, else the profile's, else None
Precedence(explicit, profile) == IF Truthy(explicit) THEN explicit ELSE profile

\* C7: each of connection string, SAS token, account name and account key
\* resolves to the explicit config value when one is given, otherwise to the
\* profile's value, otherwise to None; in particular an explicit account name
\* or account key takes precedence over the profile's.
C7_ExplicitConfigFirst ==
    cfg.pc = "built" =>
        /\ cfg.conn_kwargs.connection_string =
               Precedence(cfg.config.connection_string, cfg.az.connection_string)
        /\ cfg.conn_kwargs.sas_token =
               Precedence(cfg.config.sas_token, cfg.az.sas_token)
        /\ cfg.conn_kwargs.account_name =
               Precedence(cfg.config.account_name, cfg.az.account)
        /\ cfg.conn_kwargs.account_key =
               Precedence(cfg.config.account_key, cfg.az.key)

====
